---- MODULE Spec2Model ----
(***************************************************************************)
(* Model of the job-application tracker's ingestion pipeline:              *)
(*   - the command-line coordinator   (src/job-app-tracker/main.py),       *)
(*   - the web sync handler           (src/web-app/app/routers/sync.py),   *)
(*   - the two status normalizers     (main.py, services/classifier.py).   *)
(*                                                                         *)
(* Text is modelled as a sequence of atoms.  An atom is a chunk of         *)
(* characters that the code never looks inside: a keyword of one of the    *)
(* keyword tables, a suffix, a blank, or filler.  Substring tests of the   *)
(* code are contiguous-subsequence tests on atoms, lower() maps every atom *)
(* to its lower-case form, strip() drops blank atoms at both ends.         *)
(***************************************************************************)
EXTENDS Integers, Sequences, FiniteSets, TLC

VARIABLES
    \* ---- status normalizers (pure functions applied to one input) ----
    raw,            \* the raw status string under test
    cliStatus,      \* result of normalize_status(raw), or NotRun
    webStatus,      \* result of the web classifier's status mapping, or NotRun
    \* ---- command-line coordinator (main.py) ----
    pc,             \* position of the run in process_all_emails
    fileResults,    \* data/job_applications.json (list of records)
    fileIds,        \* data/processed_ids.json (set of message ids)
    results,        \* global `results`
    processed_email_ids, \* global `processed_email_ids`
    idx,            \* index of the message the for-loop is at
    processed,      \* local counter `processed`
    limit,          \* argument `limit` (NoLimit for None)
    classification, \* local `classification` of the message being handled
    interrupted,    \* global `interrupted`
    hist,           \* history of the current and the previous run (not program state)
    \* ---- web sync handler (sync.py) ----
    wpc,            \* position of the request in run_sync
    dbApps,         \* committed rows of table applications
    dbChanges,      \* committed rows of table status_changes
    dbProcessed,    \* committed rows of table processed_emails (message ids)
    sApps,          \* applications as seen by the request's session
    sChanges,       \* status_changes as seen by the request's session
    sProcessed,     \* processed_emails as seen by the request's session
    widx,           \* index of the message the for-loop is at
    whist,          \* history of the current and the previous sync (not program state)
    \* ---- classification parser (a pure function applied to one input) ----
    ptext,          \* the classifier output under test (a sequence of lines)
    pdetails,       \* parse_classification_details(ptext), or NotParsed
    vtext,          \* ptext with one key or value written differently
    vdetails,       \* parse_classification_details(vtext), or NotParsed
    \* ---- offline cleanup (clean_duplicates.py) ----
    applications,   \* data/job_applications.json as clean_duplicates reads and writes it
    chist,          \* history of the cleanup passes (not program state)
    \* ---- two processes running main.py on the same data directory ----
    proc,           \* per process: position, globals and locals of process_all_emails
    shared          \* the two files in data/, shared by the processes

normVars == <<raw, cliStatus, webStatus>>
cliVars  == <<pc, fileResults, fileIds, results, processed_email_ids, idx,
              processed, limit, classification, interrupted, hist>>
webVars  == <<wpc, dbApps, dbChanges, dbProcessed, sApps, sChanges, sProcessed,
              widx, whist>>
parseVars == <<ptext, pdetails, vtext, vdetails>>
cleanVars == <<applications, chist>>
twoVars  == <<proc, shared>>
vars     == <<normVars, cliVars, webVars, parseVars, cleanVars, twoVars>>

-----------------------------------------------------------------------------
(* Bounds of the model *)

\* longest raw status string, in atoms
MaxLen == 3
\* number of messages the mail provider lists for the command-line pipeline
NMsgs == 10
\* largest value of the `limit` argument that is tried
MaxLimit == 1
\* the first NVague listed messages are the ones whose pre-filter, content fetch and
\* classification may fail or say "not job related"; the later ones are job mail
NVague == 2
\* number of runs of the command-line pipeline that are followed
MaxRuns == 2
\* number of messages the mail provider lists for the web sync
NWebMsgs == 3
\* longest classifier output given to the parser, in lines
MaxLines == 3
\* largest number of records in the file the cleanup pass is given
MaxRecords == 3
\* number of cleanup passes that are followed
MaxPasses == 2
\* number of messages listed for each of two concurrent processes
NSharedMsgs == 2
\* number of form submissions to the web store that are followed
MaxForms == 2

-----------------------------------------------------------------------------
(* Text *)

Blank == " "

\* str.lower() on one atom
LowerAtom(a) ==
    CASE a = "Declined"  -> "declined"
      [] a = "Rejected"  -> "rejected"
      [] a = "Interview" -> "interview"
      [] a = "Company"   -> "company"
      [] a = "Job Title" -> "job title"
      [] a = "Location"  -> "location"
      [] a = "Status"    -> "status"
      [] a = "Applied"   -> "applied"
      [] a = "Unknown"   -> "unknown"
      [] a = "COMPANY"   -> "company"
      [] a = "JOB TITLE" -> "job title"
      [] a = "LOCATION"  -> "location"
      [] a = "STATUS"    -> "status"
      [] a = "Not Job Application" -> "not job application"
      [] a = "Acme"      -> "acme"
      [] a = "Globex"    -> "globex"
      [] a = "Engineer"  -> "engineer"
      [] OTHER           -> a

\* str.lower()
Lower(s) == [i \in 1..Len(s) |-> LowerAtom(s[i])]

RECURSIVE LStrip(_)
LStrip(s) == IF s # <<>> /\ Head(s) = Blank THEN LStrip(Tail(s)) ELSE s

RECURSIVE RStrip(_)
RStrip(s) ==
    IF s # <<>> /\ s[Len(s)] = Blank THEN RStrip(SubSeq(s, 1, Len(s) - 1)) ELSE s

\* str.strip()
Strip(s) == RStrip(LStrip(s))

\* `kw in s` for strings
Contains(s, kw) ==
    \E i \in 0..(Len(s) - Len(kw)) : SubSeq(s, i + 1, i + Len(kw)) = kw

\* s.startswith(p)
StartsWith(s, p) == Len(s) >= Len(p) /\ SubSeq(s, 1, Len(p)) = p

\* all strings of at most n atoms over alphabet A
Strings(A, n) == UNION {[1..k -> A] : k \in 0..n}

Min(S) == CHOOSE x \in S : \A y \in S : x <= y
Max(S) == CHOOSE x \in S : \A y \in S : x >= y

-----------------------------------------------------------------------------
(* Status normalizer of the command-line pipeline *)

Declined    == <<"Declined">>
Offer       == <<"Offer">>
Interviewed == <<"Interviewed">>
Applied     == <<"Applied">>

\* The keyword table, in the insertion order the dict is iterated in.
STATUS_KEYWORDS ==
    << [status |-> Declined,
        keywords |-> { <<"declined">>, <<"rejected">>, <<"not selected">>,
                       <<"not moving forward">>, <<"unfortunately">>, <<"regret">>,
                       <<"will not be">>, <<"decided not to">> }],
       [status |-> Offer,
        keywords |-> { <<"offer">>, <<"accepted">>, <<"congratulations">>,
                       <<"pleased to ", "offer">> }],
       [status |-> Interviewed,
        keywords |-> { <<"interview">>, <<"screening">>, <<"phone call">>,
                       <<"meet with">> }],
       [status |-> Applied,
        keywords |-> { <<"applied">>, <<"submitted">>, <<"received">>,
                       <<"application ", "received">>, <<"thank you for applying">>,
                       <<"confirming receipt">> }] >>

\* The first status of `table` one of whose keywords occurs in rawLower.
FirstMatch(table, rawLower) ==
    LET hits == {i \in 1..Len(table) :
                    \E k \in table[i].keywords : Contains(rawLower, k)}
    IN  IF hits = {} THEN <<>> ELSE table[Min(hits)].status

\* faulty variant: an unmatched status is reported as Unknown
normalize_status_unknown_default(raw_status) ==
    LET m == FirstMatch(STATUS_KEYWORDS, Strip(Lower(raw_status)))
    IN  IF m # <<>> THEN m ELSE <<"Unknown">>

normalize_status(raw_status) ==
    LET rawL == Strip(Lower(raw_status))
        m    == FirstMatch(STATUS_KEYWORDS, rawL)
    IN  IF m # <<>> THEN m ELSE Applied

-----------------------------------------------------------------------------
(* Status mapping of the web pipeline *)

\* ApplicationStatus members the sync can produce
APPLIED      == "applied"
SCREENING    == "screening"
INTERVIEWING == "interviewing"
OFFER        == "offer"
DECLINED     == "declined"
WITHDRAWN    == "withdrawn"

\* status_map of EmailClassifier.classify_email, in iteration order
status_map ==
    << [key |-> <<"applied">>,           value |-> <<"applied">>],
       [key |-> <<"screening">>,         value |-> <<"screening">>],
       [key |-> <<"interview", "ing">>,  value |-> <<"interview", "ing">>],
       [key |-> <<"offer">>,             value |-> <<"offer">>],
       [key |-> <<"declined">>,          value |-> <<"declined">>],
       [key |-> <<"rejected">>,          value |-> <<"declined">>],
       [key |-> <<"withdrawn">>,         value |-> <<"withdrawn">> ] >>

\* classify_email, lines 143-148: details['status'] after the normalisation loop
classifier_status(value) ==
    LET raw_status == Lower(value)
        hits == {i \in 1..Len(status_map) : Contains(raw_status, status_map[i].key)}
    IN  IF hits = {} THEN value ELSE status_map[Min(hits)].value

\* faulty variant: a status string that is no key is stored as it is
STATUS_MAP_get_no_default(status_str) ==
    IF Len(status_str) = 1 THEN status_str[1] ELSE "interviewing"

\* STATUS_MAP.get(status_str, ApplicationStatus.APPLIED) of sync.py
STATUS_MAP_get(status_str) ==
    CASE status_str = <<"applied">>          -> APPLIED
      [] status_str = <<"screening">>        -> SCREENING
      [] status_str = <<"interview", "ing">> -> INTERVIEWING
      [] status_str = <<"offer">>            -> OFFER
      [] status_str = <<"declined">>         -> DECLINED
      [] status_str = <<"withdrawn">>        -> WITHDRAWN
      [] OTHER                               -> APPLIED

\* The status run_sync stores for a classifier line "Status: <value>":
\* value.strip() (classifier line 130), the classifier's loop, then sync lines 110-111.
web_status(value) == STATUS_MAP_get(Lower(classifier_status(Strip(value))))

-----------------------------------------------------------------------------
(* Classification parser of the command-line pipeline *)

Colon == ":"

\* line.split(":", 1)[1], for a line that contains a colon
AfterColon(line) ==
    LET i == Min({j \in 1..Len(line) : line[j] = Colon})
    IN  SubSeq(line, i + 1, Len(line))

\* faulty variant: the fields start as 'Unknown'
EmptyDetails_unknown ==
    [k \in {"Company", "Job Title", "Location", "status", "Date"} |-> <<"Unknown">>]

EmptyDetails ==
    [k \in {"Company", "Job Title", "Location", "status", "Date"} |-> <<>>]

\* faulty variant: the status is stored as the classifier wrote it
parse_line_raw_status(rawLine, details) ==
    LET line == Strip(rawLine)
        low  == Lower(line)
    IN  IF StartsWith(low, <<"company", Colon>>)
          THEN [details EXCEPT !["Company"] = Strip(AfterColon(line))]
        ELSE IF StartsWith(low, <<"job title", Colon>>)
          THEN [details EXCEPT !["Job Title"] = Strip(AfterColon(line))]
        ELSE IF StartsWith(low, <<"location", Colon>>)
          THEN [details EXCEPT !["Location"] = Strip(AfterColon(line))]
        ELSE IF StartsWith(low, <<"status", Colon>>)
          THEN [details EXCEPT !["status"] = Strip(AfterColon(line))]
        ELSE details

\* one iteration of the loop over classification.splitlines()
parse_line(rawLine, details) ==
    LET line == Strip(rawLine)
        low  == Lower(line)
    IN  IF StartsWith(low, <<"company", Colon>>)
          THEN [details EXCEPT !["Company"] = Strip(AfterColon(line))]
        ELSE IF StartsWith(low, <<"job title", Colon>>)
          THEN [details EXCEPT !["Job Title"] = Strip(AfterColon(line))]
        ELSE IF StartsWith(low, <<"location", Colon>>)
          THEN [details EXCEPT !["Location"] = Strip(AfterColon(line))]
        ELSE IF StartsWith(low, <<"status", Colon>>)
          THEN [details EXCEPT !["status"] = normalize_status(Strip(AfterColon(line)))]
        ELSE details

RECURSIVE parse_lines(_, _)
parse_lines(lines, details) ==
    IF lines = <<>> THEN details
    ELSE parse_lines(Tail(lines), parse_line(Head(lines), details))

\* A text is the sequence of its lines (what splitlines() returns).
parse_classification_details(text) == parse_lines(text, EmptyDetails)

-----------------------------------------------------------------------------
(* Classification call of the command-line pipeline *)

NotJobApplication == << <<"Not Job Application">> >>

\* what the chat completion call can do: raise APIError, or answer with a text
APIError == [raised |-> TRUE, text |-> <<>>]
\* subclasses of APIError: the transient ones and the permanent one
RateLimitError      == [raised |-> TRUE, text |-> << <<"RateLimitError">> >>]
APIConnectionError  == [raised |-> TRUE, text |-> << <<"APIConnectionError">> >>]
AuthenticationError == [raised |-> TRUE, text |-> << <<"AuthenticationError">> >>]
Answer(text) == [raised |-> FALSE, text |-> text]

RECURSIVE LStripText(_)
LStripText(text) ==
    IF text = <<>> THEN text
    ELSE IF LStrip(Head(text)) = <<>> THEN LStripText(Tail(text))
    ELSE <<LStrip(Head(text))>> \o Tail(text)

RECURSIVE RStripText(_)
RStripText(text) ==
    IF text = <<>> THEN text
    ELSE IF RStrip(text[Len(text)]) = <<>> THEN RStripText(SubSeq(text, 1, Len(text) - 1))
    ELSE SubSeq(text, 1, Len(text) - 1) \o <<RStrip(text[Len(text)])>>

\* str.strip() of a multi-line text
StripText(text) == RStripText(LStripText(text))

\* faulty variant: the header is looked for in any case
looks_like_job_any_case(text) ==
    text # <<>> /\ StartsWith(Lower(text[1]), <<"company", Colon>>)

\* classification.startswith("Company:")
looks_like_job(text) == text # <<>> /\ StartsWith(text[1], <<"Company", Colon>>)

\* line 70: stop_after_attempt(3)
stop_after_attempt == 3

\* line 123, `except APIError` in the body of classify_email: every error the
\* completion call raises is an APIError or one of its subclasses
caught_in_body(response) == response.raised

\* line 72, retry_if_exception_type((RateLimitError, APIConnectionError)): the
\* decorator sees the exceptions that leave the body
retry_wanted(response) ==
    /\ response.raised
    /\ ~caught_in_body(response)
    /\ response \in {RateLimitError, APIConnectionError}

\* scripts/process_emails.py classify_email: the stripped answer, or the sentinel
classify_email(response) ==
    IF response.raised THEN NotJobApplication
    ELSE IF ~looks_like_job(StripText(response.text)) THEN NotJobApplication
    ELSE StripText(response.text)

\* "not job application" in classification.lower()
is_sentinel(text) ==
    \E i \in 1..Len(text) : Contains(Lower(text[i]), <<"not job application">>)

-----------------------------------------------------------------------------
(* The mailbox of the command-line pipeline: what the collaborators return *)

\* fetch_emails(): the listed message ids, in fetch order
messages == [i \in 1..NMsgs |-> i]

CompanyOf(m) == IF m % 2 = 1 THEN "Acme" ELSE "Globex"

StatusTextOf(m) ==
    CASE m % 3 = 1 -> <<"Applied">>
      [] m % 3 = 2 -> <<"Interview", Blank, "scheduled">>
      [] OTHER     -> <<"Declined">>

\* a well-formed answer of the classifier for message m
JobAnswer(m) ==
    << <<"Company", Colon, Blank, CompanyOf(m)>>,
       <<"Job Title", Colon, Blank, "Engineer">>,
       <<"Location", Colon, Blank, "Remote">>,
       <<"Status", Colon>> \o StatusTextOf(m) >>

\* the messages for which the collaborators may fail or answer "not job related"
Vague == {messages[i] : i \in 1..NVague}

\* the answers the classifier may give for message m
Answers(m) ==
    IF m \notin Vague THEN {Answer(JobAnswer(m))} ELSE
    { Answer(JobAnswer(m)),
      Answer(NotJobApplication),
      Answer(<< <<"Sorry, I cannot help with that">> >>),
      Answer(<< <<"company", Colon, Blank, CompanyOf(m)>> >>),
      Answer(<< <<"Company", Colon>>, <<"Location", Colon, Blank>> >>),
      Answer(<< <<"Company", Colon, Blank, "Not Job Application">> >>),
      Answer(<< <<"Company", Colon, Blank, CompanyOf(m)>>,
                <<"Status", Colon>> \o StatusTextOf(m) >>),
      APIError, RateLimitError, APIConnectionError, AuthenticationError }

ClassifierAnswers == UNION {Answers(m) : m \in 1..NMsgs}

\* get_email_content(msg_id)["date"]
DateOf(m) == <<"2024-01-01">>

-----------------------------------------------------------------------------
(* Files and globals of the command-line pipeline *)

\* line 253: a checkpoint every 10 appended records
CheckpointEvery == 10

NoLimit == <<>>
Limits  == {NoLimit} \cup {<<n>> : n \in 1..MaxLimit}

\* save_results line 100: the record without its internal email_id
StripId(r) == [k \in DOMAIN r \ {"email_id"} |-> r[k]]
StripIds(rs) == [i \in 1..Len(rs) |-> StripId(rs[i])]

\* positions of a run at which the signal handler is installed and the run lives
Running == {"load_results", "load_ids", "fetch", "head", "filter", "classify",
            "merge", "ckpt_results", "ckpt_ids", "end_results", "end_ids"}

\* history: no classifier answer is being merged
NoResponse == Answer(<<>>)

NewHist ==
    [ runs         |-> 0,             \* number of runs started
      response     |-> NoResponse,    \* the classifier's answer for the message at idx
      attempts     |-> 0,             \* completion calls made for the message at idx
      fatal        |-> 0,             \* the first message whose call failed permanently
      startResults |-> fileResults,   \* persisted records when the run started
      startIds     |-> fileIds,       \* persisted processed ids when the run started
      prevFull     |-> FALSE,         \* the previous run reached its end
      prevNormal   |-> FALSE,         \* ... and was not stopped by the limit
      fetched      |-> FALSE,         \* this run's fetch returned
      limitStop    |-> FALSE,         \* this run was stopped by the limit
      repeated     |-> {},            \* collaborator calls made for ids in startIds
      snapIds      |-> fileIds,       \* processed ids in memory when records were written
      snapResults  |-> fileResults ]  \* records in memory when processed ids were written

InitCli ==
    /\ pc = "idle"
    /\ fileResults = <<>>
    /\ fileIds = {}
    /\ results = <<>>
    /\ processed_email_ids = {}
    /\ idx = 0
    /\ processed = 0
    /\ limit = NoLimit
    /\ classification = <<>>
    /\ interrupted = FALSE
    /\ hist = NewHist

-----------------------------------------------------------------------------
(* The run of the command-line pipeline: process_all_emails *)

\* faulty variant: the records are never written
save_results_lost(ok) == UNCHANGED <<fileResults, fileIds>>

\* save_results(): the write succeeds (ok) or raises IOError, which is logged
save_results(ok) ==
    /\ fileResults' = IF ok THEN StripIds(results) ELSE fileResults
    /\ UNCHANGED fileIds

\* faulty variant: the processed ids are never written
save_processed_ids_lost(ok) == UNCHANGED <<fileResults, fileIds>>

\* save_processed_ids(ids): the write succeeds (ok) or raises IOError, which is logged
save_processed_ids(ok) ==
    /\ fileIds' = IF ok THEN processed_email_ids ELSE fileIds
    /\ UNCHANGED fileResults

\* faulty variant: the loop does not consult the processed set
already_processed_never(m) == FALSE

\* line 221: msg_id in processed_email_ids
already_processed(m) == m \in processed_email_ids

\* faulty variant: a message without a record is not marked
marked_without_record_forgets(m) == processed_email_ids

\* lines 231 and 259: processed_email_ids.add(msg_id) for a message without a record
marked_without_record(m) == processed_email_ids \cup {m}

\* line 224: limit is not None and processed >= limit
limit_reached == limit # NoLimit /\ processed >= limit[1]

\* the program is started: globals have their import-time values, line 200 installs
\* the signal handler
Install(lim) ==
    /\ pc \in {"idle", "done", "killed"}
    /\ hist.runs < MaxRuns
    /\ pc' = "load_results"
    /\ results' = <<>>
    /\ processed_email_ids' = {}
    /\ interrupted' = FALSE
    /\ idx' = 0
    /\ processed' = 0
    /\ classification' = <<>>
    /\ limit' = lim
    /\ hist' = [NewHist EXCEPT
                  !.prevFull   = pc = "done" /\ ~interrupted /\ hist.fetched,
                  !.prevNormal = pc = "done" /\ ~interrupted /\ hist.fetched
                                   /\ ~hist.limitStop,
                  !.runs        = hist.runs + 1,
                  !.snapIds     = hist.snapIds,
                  !.snapResults = hist.snapResults]
    /\ UNCHANGED <<fileResults, fileIds>>

\* line 203
LoadResults ==
    /\ pc = "load_results"
    /\ results' = fileResults
    /\ pc' = "load_ids"
    /\ UNCHANGED <<fileResults, fileIds, processed_email_ids, idx, processed, limit,
                   classification, interrupted, hist>>

\* line 204
LoadIds ==
    /\ pc = "load_ids"
    /\ processed_email_ids' = fileIds
    /\ pc' = "fetch"
    /\ UNCHANGED <<fileResults, fileIds, results, idx, processed, limit,
                   classification, interrupted, hist>>

\* lines 207-215: fetch_emails returns the listing
Fetch ==
    /\ pc = "fetch"
    /\ pc' = "head"
    /\ idx' = 1
    /\ hist' = [hist EXCEPT !.fetched = TRUE]
    /\ UNCHANGED <<fileResults, fileIds, results, processed_email_ids, processed,
                   limit, classification, interrupted>>

\* lines 209-211: fetch_emails raises, the run returns without saving
FetchFails ==
    /\ pc = "fetch"
    /\ pc' = "done"
    /\ UNCHANGED <<fileResults, fileIds, results, processed_email_ids, idx, processed,
                   limit, classification, interrupted, hist>>

\* lines 216-226: the head of the for-loop
LoopHead ==
    /\ pc = "head"
    /\ IF idx > NMsgs \/ interrupted
         THEN /\ pc' = "end_results"
              /\ hist' = [hist EXCEPT !.response = NoResponse, !.attempts = 0]
              /\ UNCHANGED idx
       ELSE IF already_processed(messages[idx])
         THEN /\ pc' = "head"
              /\ idx' = idx + 1
              /\ hist' = [hist EXCEPT !.response = NoResponse, !.attempts = 0]
       ELSE IF limit_reached
         THEN /\ pc' = "end_results"
              /\ hist' = [hist EXCEPT !.limitStop = TRUE, !.response = NoResponse, !.attempts = 0]
              /\ UNCHANGED idx
       ELSE /\ pc' = "filter"
            /\ hist' = [hist EXCEPT !.response = NoResponse, !.attempts = 0]
            /\ UNCHANGED idx
    /\ UNCHANGED <<fileResults, fileIds, results, processed_email_ids, processed,
                   limit, classification, interrupted>>

\* history: a collaborator call for a message that was persisted as processed
Called(kind, m) ==
    IF m \in hist.startIds
      THEN [hist EXCEPT !.repeated = @ \cup {<<kind, m>>}]
      ELSE hist

\* lines 229-232, 257-260: the snippet and the pre-filter.
\* outcome: "raise" (an exception), "no" (not job related), "yes"
Filter(outcome) ==
    /\ pc = "filter"
    /\ outcome = "yes" \/ messages[idx] \in Vague
    /\ hist' = Called("filter", messages[idx])
    /\ IF outcome = "yes"
         THEN pc' = "classify" /\ UNCHANGED <<idx, processed_email_ids>>
         ELSE /\ processed_email_ids' = marked_without_record(messages[idx])
              /\ idx' = idx + 1
              /\ pc' = "head"
    /\ UNCHANGED <<fileResults, fileIds, results, processed, limit, classification,
                   interrupted>>

\* lines 234-239, 257-260: get_email_content raises
ContentFails ==
    /\ pc = "classify"
    /\ messages[idx] \in Vague
    /\ hist' = Called("content", messages[idx])
    /\ processed_email_ids' = marked_without_record(messages[idx])
    /\ idx' = idx + 1
    /\ pc' = "head"
    /\ UNCHANGED <<fileResults, fileIds, results, processed, limit, classification,
                   interrupted>>

\* lines 234-239: the content is fetched and classified, the id is marked
\* (an exception that leaves classify_email is retried by the decorator up to the
\* cap, and then reaches the handler of lines 257-260)
Classify(response) ==
    /\ pc = "classify"
    /\ response \in Answers(messages[idx])
    /\ hist' = [Called("content", messages[idx]) EXCEPT
                  !.repeated = @ \cup (IF messages[idx] \in hist.startIds
                                         THEN {<<"classify", messages[idx]>>} ELSE {}),
                  !.response = response,
                  !.attempts = @ + 1,
                  !.fatal = IF @ = 0 /\ response = AuthenticationError
                              THEN messages[idx] ELSE @]
    /\ IF retry_wanted(response) /\ hist.attempts + 1 < stop_after_attempt
         THEN UNCHANGED <<pc, classification, processed_email_ids, idx>>
       ELSE IF response.raised /\ ~caught_in_body(response)
         THEN /\ processed_email_ids' = marked_without_record(messages[idx])
              /\ idx' = idx + 1
              /\ pc' = "head"
              /\ UNCHANGED classification
       ELSE /\ classification' = classify_email(response)
            /\ processed_email_ids' = processed_email_ids \cup {messages[idx]}
            /\ pc' = "merge"
            /\ UNCHANGED idx
    /\ UNCHANGED <<fileResults, fileIds, results, processed, limit, interrupted>>

\* line 248: any extracted field is non-empty
has_details(details) ==
    \/ details["Company"] # <<>>
    \/ details["Job Title"] # <<>>
    \/ details["Location"] # <<>>
    \/ details["status"] # <<>>

\* lines 244-246: the candidate record of the message at idx
candidate(m) ==
    [parse_classification_details(classification) EXCEPT !["Date"] = DateOf(m)]
        @@ ("email_id" :> m)

\* lines 241-253: the merge of the classified message
Merge ==
    /\ pc = "merge"
    /\ IF is_sentinel(classification) \/ ~has_details(candidate(messages[idx]))
         THEN /\ pc' = "head"
              /\ idx' = idx + 1
              /\ UNCHANGED <<results, processed>>
         ELSE /\ results' = Append(results, candidate(messages[idx]))
              /\ processed' = processed + 1
              /\ IF (processed + 1) % CheckpointEvery = 0
                   THEN pc' = "ckpt_results" /\ UNCHANGED idx
                   ELSE pc' = "head" /\ idx' = idx + 1
    /\ classification' = <<>>
    /\ UNCHANGED <<fileResults, fileIds, processed_email_ids, limit, interrupted, hist>>

\* line 254
CheckpointResults(ok) ==
    /\ pc = "ckpt_results"
    /\ save_results(ok)
    /\ hist' = IF ok THEN [hist EXCEPT !.snapIds = processed_email_ids] ELSE hist
    /\ pc' = "ckpt_ids"
    /\ UNCHANGED <<results, processed_email_ids, idx, processed, limit, classification,
                   interrupted>>

\* line 255
CheckpointIds(ok) ==
    /\ pc = "ckpt_ids"
    /\ save_processed_ids(ok)
    /\ hist' = IF ok THEN [hist EXCEPT !.snapResults = StripIds(results)] ELSE hist
    /\ pc' = "head"
    /\ idx' = idx + 1
    /\ UNCHANGED <<results, processed_email_ids, processed, limit, classification,
                   interrupted>>

\* lines 262-263
EndResults(ok) ==
    /\ pc = "end_results"
    /\ IF ~interrupted
         THEN /\ save_results(ok)
              /\ hist' = IF ok THEN [hist EXCEPT !.snapIds = processed_email_ids]
                         ELSE hist
         ELSE UNCHANGED <<fileResults, fileIds, hist>>
    /\ pc' = "end_ids"
    /\ UNCHANGED <<results, processed_email_ids, idx, processed, limit, classification,
                   interrupted>>

\* lines 262-266
EndIds(ok) ==
    /\ pc = "end_ids"
    /\ IF ~interrupted
         THEN /\ save_processed_ids(ok)
              /\ hist' = IF ok THEN [hist EXCEPT !.snapResults = StripIds(results)]
                         ELSE hist
         ELSE UNCHANGED <<fileResults, fileIds, hist>>
    /\ pc' = "done"
    /\ UNCHANGED <<results, processed_email_ids, idx, processed, limit, classification,
                   interrupted>>

\* faulty variant: the handler exits without writing
signal_handler_exit_only(okResults, okIds) ==
    /\ pc \in Running
    /\ interrupted' = TRUE
    /\ pc' = "done"
    /\ UNCHANGED <<fileResults, fileIds, results, processed_email_ids, idx, processed,
                   limit, classification, hist>>

\* lines 178-185: SIGINT arrives while the run lives; the handler writes both files
\* from the globals as they are and exits the process
signal_handler(okResults, okIds) ==
    /\ pc \in Running
    /\ interrupted' = TRUE
    /\ fileResults' = IF okResults THEN StripIds(results) ELSE fileResults
    /\ fileIds' = IF okIds THEN processed_email_ids ELSE fileIds
    /\ hist' = [hist EXCEPT
                  !.snapIds = IF okResults THEN processed_email_ids ELSE @,
                  !.snapResults = IF okIds THEN StripIds(results) ELSE @]
    /\ pc' = "done"
    /\ UNCHANGED <<results, processed_email_ids, idx, processed, limit, classification>>

\* the process is killed (SIGKILL, power loss): nothing more is written
Kill ==
    /\ pc \in Running
    /\ pc' = "killed"
    /\ UNCHANGED <<fileResults, fileIds, results, processed_email_ids, idx, processed,
                   limit, classification, interrupted, hist>>

-----------------------------------------------------------------------------
(* The web sync handler: run_sync *)

\* fetch_messages(): the listed message ids, in fetch order (ids are distinct)
wmessages == [i \in 1..NWebMsgs |-> i]

\* content['thread_id']: messages 1 and 2 form thread 1, messages 3 and 4 thread 2, ...
ThreadOf(m) == (m + 1) \div 2

\* key.strip().lower().replace(' ', '_') for a one-atom key
key_name(k) ==
    LET low == Lower(Strip(k))
    IN  IF low = <<"job title">> THEN "job_title"
        ELSE IF Len(low) = 1 THEN low[1] ELSE "other"

\* line.split(':', 1)[0]
BeforeColon(line) ==
    SubSeq(line, 1, Min({j \in 1..Len(line) : line[j] = Colon}) - 1)

\* classifier.py lines 125-130: one line of the answer
web_parse_line(rawLine, details) ==
    LET line == Strip(rawLine)
    IN  IF \E j \in 1..Len(line) : line[j] = Colon
          THEN (key_name(BeforeColon(line)) :> Strip(AfterColon(line))) @@ details
          ELSE details

RECURSIVE web_parse_lines(_, _)
web_parse_lines(lines, details) ==
    IF lines = <<>> THEN details
    ELSE web_parse_lines(Tail(lines), web_parse_line(Head(lines), details))

NoDetails == [k \in {} |-> <<>>]
None == [none |-> TRUE]

\* details.get(key, default)
Get(details, key, default) ==
    IF key \in DOMAIN details THEN details[key] ELSE default

\* EmailClassifier.classify_email: the details dict, or None
web_classify_email(response) ==
    IF response.raised THEN None
    ELSE IF StripText(response.text) = << <<"NOT_JOB_EMAIL">> >> THEN None
    ELSE LET parsed  == web_parse_lines(StripText(response.text), NoDetails)
             details == IF "status" \in DOMAIN parsed
                          THEN [parsed EXCEPT !["status"] = classifier_status(@)]
                          ELSE parsed
         IN  IF Get(details, "company", <<>>) # <<>> THEN details ELSE None

\* sync.py lines 110-111
mapped_status(details) ==
    STATUS_MAP_get(Lower(Get(details, "status", <<"applied">>)))

WebCompanies == {"Acme", "Globex"}
WebStatusTexts == {<<"Applied">>, <<"Declined">>}

WebJobAnswer(co, st) ==
    << <<"Company", Colon, Blank, co>>,
       <<"Job Title", Colon, Blank, "Engineer">>,
       <<"Location", Colon, Blank, "Remote">>,
       <<"Status", Colon, Blank>> \o st >>

\* the answers the web classifier's completion call may give
WebAnswers ==
    {Answer(WebJobAnswer(co, st)) : co \in WebCompanies, st \in WebStatusTexts}
      \cup { Answer(<< <<"NOT_JOB_EMAIL">> >>),
             Answer(<< <<"Job Title", Colon, Blank, "Engineer">> >>),
             Answer(<< <<"Company", Colon, Blank, "Acme">>,
                       <<"Job Title", Colon, Blank, "Engineer">> >>),
             APIError }

NoLast == [kind |-> "none"]

\* history: no call has failed for a message of this sync
NoFailure == [kind |-> "none", m |-> 0]

NewWebHist ==
    [ startApps      |-> dbApps,       \* committed rows when the sync started
      startChanges   |-> dbChanges,
      startProcessed |-> dbProcessed,
      prevComplete   |-> FALSE,        \* the previous sync committed
      prevAllContent |-> FALSE,        \* ... and got the content of every message
      committed      |-> FALSE,        \* this sync committed
      skippedContent |-> FALSE,        \* this sync skipped a message without content
      repeated       |-> {},           \* calls made for ids in startProcessed
      integrityError |-> FALSE,        \* an insert broke the unique thread constraint
      last           |-> NoLast,       \* the last merge decision of this sync
      failed         |-> NoFailure,    \* the last call that failed, and its message
      forms          |-> 0 ]           \* form submissions handled so far

InitWeb ==
    /\ wpc = "idle"
    /\ dbApps = <<>>
    /\ dbChanges = <<>>
    /\ dbProcessed = {}
    /\ sApps = <<>>
    /\ sChanges = <<>>
    /\ sProcessed = {}
    /\ widx = 0
    /\ whist = NewWebHist

\* lines 56-71: the request starts a session on the committed rows and lists the mail
SyncStart ==
    /\ wpc = "idle"
    /\ wpc' = "loop"
    /\ sApps' = dbApps
    /\ sChanges' = dbChanges
    /\ sProcessed' = dbProcessed
    /\ widx' = 1
    /\ whist' = [NewWebHist EXCEPT
                   !.prevComplete   = whist.committed,
                   !.prevAllContent = whist.committed /\ ~whist.skippedContent,
                   !.forms          = whist.forms]
    /\ UNCHANGED <<dbApps, dbChanges, dbProcessed>>

\* lines 77-82: a ProcessedEmail row exists for the message
web_already_processed(m) == m \in sProcessed

\* faulty variant: the thread is not looked up
application_of_thread_none(thread_id) == 0

\* lines 117-120: the application whose email_thread_id is thread_id (0 when none)
application_of_thread(thread_id) ==
    IF \E i \in 1..Len(sApps) : sApps[i].email_thread_id = thread_id
      THEN Min({i \in 1..Len(sApps) : sApps[i].email_thread_id = thread_id})
      ELSE 0

\* faulty variant: every correlated message counts as a status change
status_differs_always(app, status) == TRUE

\* line 124: existing_app.status != status
status_differs(app, status) == app.status # status

\* lines 76-82: the message is already processed
SyncSkip ==
    /\ wpc = "loop"
    /\ widx <= NWebMsgs
    /\ web_already_processed(wmessages[widx])
    /\ widx' = widx + 1
    /\ UNCHANGED <<wpc, dbApps, dbChanges, dbProcessed, sApps, sChanges, sProcessed,
                   whist>>

WebCalled(kinds, m) ==
    IF m \in whist.startProcessed
      THEN [whist EXCEPT !.repeated = @ \cup {<<k, m>> : k \in kinds}]
      ELSE whist

\* lines 84-87: get_message_content returns {} (HttpError): the message is passed over
SyncNoContent ==
    /\ wpc = "loop"
    /\ widx <= NWebMsgs
    /\ ~web_already_processed(wmessages[widx])
    /\ widx' = widx + 1
    /\ whist' = [WebCalled({"content"}, wmessages[widx]) EXCEPT
                   !.skippedContent = TRUE,
                   !.failed = [kind |-> "content", m |-> wmessages[widx]]]
    /\ UNCHANGED <<wpc, dbApps, dbChanges, dbProcessed, sApps, sChanges, sProcessed>>

\* lines 84-100: the pre-filter says no (or its call fails with APIError)
SyncNotJob ==
    /\ wpc = "loop"
    /\ widx <= NWebMsgs
    /\ ~web_already_processed(wmessages[widx])
    /\ sProcessed' = sProcessed \cup {wmessages[widx]}
    /\ widx' = widx + 1
    /\ whist' = WebCalled({"content", "filter"}, wmessages[widx])
    /\ UNCHANGED <<wpc, dbApps, dbChanges, dbProcessed, sApps, sChanges>>

\* lines 122-138: the thread's application is updated in place when the status changed
UpdateExisting(i, status) ==
    IF status_differs(sApps[i], status)
      THEN /\ sApps' = [sApps EXCEPT ![i].status = status]
           /\ sChanges' = Append(sChanges,
                  [application_id |-> sApps[i].id, old_status |-> sApps[i].status,
                   new_status |-> status, source |-> "email"])
      ELSE UNCHANGED <<sApps, sChanges>>

\* the integer primary key the database gives an inserted row: one more than the
\* largest key in the table
next_id(rows) ==
    IF rows = <<>> THEN 1 ELSE Max({rows[i].id : i \in 1..Len(rows)}) + 1

\* lines 139-161: a new application with its initial status change
CreateApplication(details, status, thread_id) ==
    LET id == next_id(sApps)
    IN  /\ sApps' = Append(sApps,
               [id |-> id,
                company |-> Get(details, "company", <<"Unknown">>),
                job_title |-> Get(details, "job_title", <<"Unknown">>),
                location |-> Get(details, "location", <<"Unknown">>),
                status |-> status,
                email_thread_id |-> thread_id])
        /\ sChanges' = Append(sChanges,
               [application_id |-> id, old_status |-> "none",
                new_status |-> status, source |-> "email"])

\* lines 84-163: the message passes the pre-filter and is classified and merged
SyncClassify(response) ==
    /\ wpc = "loop"
    /\ widx <= NWebMsgs
    /\ ~web_already_processed(wmessages[widx])
    /\ LET m         == wmessages[widx]
           details   == web_classify_email(response)
           status    == mapped_status(details)
           thread_id == ThreadOf(m)
           existing  == application_of_thread(thread_id)
           cand      == [m |-> m, details |-> details, status |-> status,
                         thread |-> thread_id]
       IN  /\ sProcessed' = sProcessed \cup {m}
           /\ widx' = widx + 1
           /\ IF details = None
                THEN /\ UNCHANGED <<sApps, sChanges>>
                     /\ whist' = [WebCalled({"content", "filter", "classify"}, m)
                                    EXCEPT !.failed =
                            IF response.raised THEN [kind |-> "classify", m |-> m]
                            ELSE @]
              ELSE IF existing # 0
                THEN /\ UpdateExisting(existing, status)
                     /\ whist' = [WebCalled({"content", "filter", "classify"}, m)
                                    EXCEPT !.last =
                            [kind |-> IF status_differs(sApps[existing], status)
                                        THEN "update" ELSE "noop",
                             cand |-> cand, app |-> existing]]
              ELSE /\ CreateApplication(details, status, thread_id)
                   /\ whist' = [WebCalled({"content", "filter", "classify"}, m)
                                  EXCEPT !.last = [kind |-> "create", cand |-> cand,
                                                   app |-> Len(sApps) + 1],
                                         !.integrityError =
                            \E i \in 1..Len(sApps) :
                                sApps[i].email_thread_id = thread_id]
    /\ UNCHANGED <<wpc, dbApps, dbChanges, dbProcessed>>

\* line 165: db.commit()
SyncCommit ==
    /\ wpc = "loop"
    /\ widx > NWebMsgs
    /\ ~whist.integrityError
    /\ dbApps' = sApps
    /\ dbChanges' = sChanges
    /\ dbProcessed' = sProcessed
    /\ wpc' = "idle"
    /\ whist' = [whist EXCEPT !.committed = TRUE]
    /\ UNCHANGED <<sApps, sChanges, sProcessed, widx>>

\* a call raises something the handler does not catch (a transport error of the mail
\* client, an IntegrityError of the insert): the request fails, get_db closes the
\* session and nothing of this sync is committed
SyncAbort ==
    /\ wpc = "loop"
    /\ widx <= NWebMsgs \/ whist.integrityError
    /\ wpc' = "idle"
    /\ sApps' = dbApps
    /\ sChanges' = dbChanges
    /\ sProcessed' = dbProcessed
    /\ whist' = [whist EXCEPT
                   !.integrityError = FALSE,
                   !.failed = IF widx <= NWebMsgs
                                THEN [kind |-> "uncaught", m |-> wmessages[widx]]
                                ELSE @]
    /\ UNCHANGED <<dbApps, dbChanges, dbProcessed, widx>>

-----------------------------------------------------------------------------
(* The application handlers of the web store: applications.py.  The handlers and
   run_sync are coroutines without an await in their bodies, served by one event
   loop: a form is handled while no sync is running, and the next session reads
   the rows the form committed. *)

SAVED    == "saved"
ACCEPTED == "accepted"

\* models.py lines 11-20: the values of the members of ApplicationStatus
ApplicationStatus ==
    {SAVED, APPLIED, SCREENING, INTERVIEWING, OFFER, ACCEPTED, DECLINED, WITHDRAWN}

\* the values the forms post
FormStatuses == {"interviewing", "bogus"}
FormCompanies == {<<"Initech">>}
FormJobTitles == {<<"Analyst">>}

\* db.query(Application).filter(Application.id == app_id).first(): its position
application_of_id(app_id) ==
    CHOOSE i \in 1..Len(dbApps) : dbApps[i].id = app_id

application_ids == {dbApps[i].id : i \in 1..Len(dbApps)}

\* faulty variant: the status is set without a history entry
status_change_untracked(application, new_status) == <<>>

\* lines 213-220 and 262-269: the StatusChange row added when the status differs
status_change(application, new_status) ==
    IF application.status # new_status
      THEN << [application_id |-> application.id, old_status |-> application.status,
               new_status |-> new_status, source |-> "manual"] >>
      ELSE <<>>

\* lines 93-150: the create form
create_application(company, job_title, status) ==
    /\ wpc = "idle"
    /\ whist.forms < MaxForms
    /\ LET status_enum == IF status \in ApplicationStatus THEN status ELSE APPLIED
           id          == next_id(dbApps)
       IN  /\ dbApps' = Append(dbApps,
                  [id |-> id, company |-> company, job_title |-> job_title,
                   location |-> <<>>, status |-> status_enum, email_thread_id |-> 0])
           /\ dbChanges' = Append(dbChanges,
                  [application_id |-> id, old_status |-> "none",
                   new_status |-> status_enum, source |-> "manual"])
    /\ sApps' = dbApps'
    /\ sChanges' = dbChanges'
    /\ whist' = [whist EXCEPT !.forms = @ + 1]
    /\ UNCHANGED <<wpc, dbProcessed, sProcessed, widx>>

\* lines 186-243: the edit form
update_application(app_id, company, job_title, status) ==
    /\ wpc = "idle"
    /\ whist.forms < MaxForms
    /\ app_id \in application_ids
    /\ LET i           == application_of_id(app_id)
           application == dbApps[i]
           new_status  == IF status \in ApplicationStatus
                            THEN status ELSE application.status
       IN  /\ dbChanges' = dbChanges \o status_change(application, new_status)
           /\ dbApps' = [dbApps EXCEPT ![i].company = company,
                                       ![i].job_title = job_title,
                                       ![i].location = <<>>,
                                       ![i].status = new_status]
    /\ sApps' = dbApps'
    /\ sChanges' = dbChanges'
    /\ whist' = [whist EXCEPT !.forms = @ + 1]
    /\ UNCHANGED <<wpc, dbProcessed, sProcessed, widx>>

\* lines 247-274: the status dropdown of the list view
quick_update_status(app_id, status) ==
    /\ wpc = "idle"
    /\ whist.forms < MaxForms
    /\ app_id \in application_ids
    /\ status \in ApplicationStatus
    /\ LET i           == application_of_id(app_id)
           application == dbApps[i]
       IN  IF application.status # status
             THEN /\ dbChanges' = dbChanges \o status_change(application, status)
                  /\ dbApps' = [dbApps EXCEPT ![i].status = status]
             ELSE UNCHANGED <<dbApps, dbChanges>>
    /\ sApps' = dbApps'
    /\ sChanges' = dbChanges'
    /\ whist' = [whist EXCEPT !.forms = @ + 1]
    /\ UNCHANGED <<wpc, dbProcessed, sProcessed, widx>>

\* faulty variant: the history rows of the deleted application are left behind
status_changes_after_delete_kept(changes, app_id) == changes

\* line 285: db.query(StatusChange).filter(application_id == app_id).delete()
status_changes_after_delete(changes, app_id) ==
    SelectSeq(changes, LAMBDA c : c.application_id # app_id)

\* lines 278-289: the delete button
delete_application(app_id) ==
    /\ wpc = "idle"
    /\ whist.forms < MaxForms
    /\ app_id \in application_ids
    /\ dbChanges' = status_changes_after_delete(dbChanges, app_id)
    /\ dbApps' = SelectSeq(dbApps, LAMBDA a : a.id # app_id)
    /\ sApps' = dbApps'
    /\ sChanges' = dbChanges'
    /\ whist' = [whist EXCEPT !.forms = @ + 1]
    /\ UNCHANGED <<wpc, dbProcessed, sProcessed, widx>>

-----------------------------------------------------------------------------
(* The status normalizers applied to one raw status string *)

NotRun == <<"not run">>

\* the atoms raw status strings are built from
StatusAtoms ==
    {"declined", "Declined", "rejected", "offer", "interview", "ing", "screening",
     "applied", "withdrawn", Blank, "soon", "Unknown"}

InitNormIdle ==
    /\ raw = <<>>
    /\ cliStatus = NotRun
    /\ webStatus = NotRun

InitNorm ==
    /\ raw \in Strings(StatusAtoms, MaxLen)
    /\ cliStatus = NotRun
    /\ webStatus = NotRun

\* the command-line pipeline normalizes the status
NormalizeCli ==
    /\ cliStatus = NotRun
    /\ cliStatus' = normalize_status(raw)
    /\ UNCHANGED <<raw, webStatus>>

\* the web pipeline maps the status
NormalizeWeb ==
    /\ webStatus = NotRun
    /\ webStatus' = <<web_status(raw)>>
    /\ UNCHANGED <<raw, cliStatus>>

-----------------------------------------------------------------------------
(* The classification parser applied to one classifier output *)

NotParsed == <<"not parsed">>

\* the lines classifier outputs are built from
ParseLines ==
    { <<"Company", Colon, Blank, "Acme">>,
      <<"job title", Colon, "Engineer">>,
      <<"Location", Colon, Blank, "Unknown">>,
      <<"Status", Colon, Blank, "Declined">>,
      <<"status", Colon, "interview", Blank, "soon">>,
      <<"Status", Colon>>,
      <<"soon">>,
      <<>> }

\* str.upper() on a key name
UpperAtom(a) ==
    CASE LowerAtom(a) = "company"   -> "COMPANY"
      [] LowerAtom(a) = "job title" -> "JOB TITLE"
      [] LowerAtom(a) = "location"  -> "LOCATION"
      [] LowerAtom(a) = "status"    -> "STATUS"
      [] OTHER -> a

KeyNames == {"company", "job title", "location", "status"}

\* a "Key: Value" line: a key name, then a colon
IsKeyLine(line) ==
    /\ Len(line) >= 2
    /\ LowerAtom(line[1]) \in KeyNames
    /\ line[2] = Colon

\* the ways a key line is written differently
Rewritings == {"case", "before_key", "after_key", "before_value", "after_value"}

\* the key line written differently: the case of the key name changed, or a blank
\* added before or after the key name or the value
Rewrite(kind, line) ==
    CASE kind = "case" ->
           <<IF line[1] = UpperAtom(line[1]) THEN LowerAtom(line[1])
             ELSE UpperAtom(line[1])>> \o Tail(line)
      [] kind = "before_key"   -> <<Blank>> \o line
      [] kind = "after_key"    -> <<line[1], Blank>> \o Tail(line)
      [] kind = "before_value" -> <<line[1], Colon, Blank>> \o Tail(Tail(line))
      [] kind = "after_value"  -> line \o <<Blank>>

InitParseIdle ==
    /\ ptext = <<>>
    /\ vtext = <<>>
    /\ pdetails = NotParsed
    /\ vdetails = NotParsed

InitParse ==
    /\ ptext \in Strings(ParseLines, MaxLines)
    /\ vtext = ptext
    /\ pdetails = NotParsed
    /\ vdetails = NotParsed

\* the classifier output is parsed
Parse ==
    /\ pdetails = NotParsed
    /\ pdetails' = parse_classification_details(ptext)
    /\ UNCHANGED <<ptext, vtext, vdetails>>

\* line i of the classifier output is written differently
Reformat(i, kind) ==
    /\ vtext = ptext
    /\ vdetails = NotParsed
    /\ i \in 1..Len(ptext)
    /\ IsKeyLine(ptext[i])
    /\ vtext' = [ptext EXCEPT ![i] = Rewrite(kind, ptext[i])]
    /\ UNCHANGED <<ptext, pdetails, vdetails>>

\* the rewritten classifier output is parsed
ParseRewritten ==
    /\ vtext # ptext
    /\ vdetails = NotParsed
    /\ vdetails' = parse_classification_details(vtext)
    /\ UNCHANGED <<ptext, vtext, pdetails>>

-----------------------------------------------------------------------------
(* The offline cleanup pass: clean_duplicates *)

Unknown == <<"Unknown">>

\* count_unknown_fields(app)
count_unknown_fields(app) == Cardinality({k \in DOMAIN app : app[k] = Unknown})

\* line 26: f"{app['Company']}_{app['Job Title']}"
group_key(app) == app["Company"] \o <<"_">> \o app["Job Title"]

\* lines 25-29: unique_apps[key], as the indices of the group in list order
app_list(apps, key) == {i \in 1..Len(apps) : group_key(apps[i]) = key}

\* faulty variant: an Applied record is removed only when a Declined one follows it
applied_to_remove_if_followed(apps, group) ==
    {i \in group : /\ apps[i]["status"] = Applied
                   /\ \E j \in group : j > i /\ apps[j]["status"] = Declined}

\* lines 35-47: the Applied records of a group that also has a Declined record
applied_to_remove(apps, group) ==
    LET has_applied  == \E i \in group : apps[i]["status"] = Applied
        has_declined == \E i \in group : apps[i]["status"] = Declined
    IN  IF has_applied /\ has_declined
          THEN {i \in group : apps[i]["status"] = Applied}
          ELSE {}

\* line 53: min(interviewed_records, key=count_unknown_fields), the first of the
\* records with the fewest 'Unknown' fields
best_record(apps, interviewed_records) ==
    Min({i \in interviewed_records :
            \A j \in interviewed_records :
                count_unknown_fields(apps[i]) <= count_unknown_fields(apps[j])})

\* faulty variant: a pass removes one surplus Interviewed record only
interviewed_to_remove_one(apps, group) ==
    LET interviewed_records == {i \in group : apps[i]["status"] = Interviewed}
        others == interviewed_records \ {best_record(apps, interviewed_records)}
    IN  IF Cardinality(interviewed_records) > 1
          THEN {CHOOSE i \in others : \A j \in others : i <= j}
          ELSE {}

\* lines 50-57: the Interviewed records of a group but the most complete one
interviewed_to_remove(apps, group) ==
    LET interviewed_records == {i \in group : apps[i]["status"] = Interviewed}
    IN  IF Cardinality(interviewed_records) > 1
          THEN interviewed_records \ {best_record(apps, interviewed_records)}
          ELSE {}

\* lines 32-60: the indices to delete
duplicates_to_remove(apps) ==
    UNION { IF Cardinality(app_list(apps, group_key(apps[i]))) > 1
              THEN applied_to_remove(apps, app_list(apps, group_key(apps[i])))
                     \cup interviewed_to_remove(apps, app_list(apps, group_key(apps[i])))
              ELSE {}
            : i \in 1..Len(apps) }

\* lines 61-65: the list after `del applications[idx]` for every index, highest first
RECURSIVE delete_all(_, _, _)
delete_all(apps, removed, i) ==
    IF i > Len(apps) THEN <<>>
    ELSE (IF i \in removed THEN <<>> ELSE <<apps[i]>>) \o delete_all(apps, removed, i + 1)

\* the (company, job title) pairs of the stored records
StoredPairs ==
    { [Company |-> <<"Acme">>,             title |-> <<"Web", "_", "Dev">>],
      [Company |-> <<"Acme", "_", "Web">>, title |-> <<"Dev">>] }

\* location and date of the stored records: none, one or both 'Unknown'
StoredRest ==
    { [Location |-> <<"Remote">>, Date |-> <<"2024-01-01">>],
      [Location |-> Unknown,      Date |-> <<"2024-01-01">>],
      [Location |-> Unknown,      Date |-> Unknown] }

\* the records save_results writes to data/job_applications.json
StoredRecords ==
    { [k \in {"Company", "Job Title", "Location", "status", "Date"} |->
          CASE k = "Company"   -> p.Company
            [] k = "Job Title" -> p.title
            [] k = "Location"  -> r.Location
            [] k = "status"    -> st
            [] k = "Date"      -> r.Date]
      : p \in StoredPairs, r \in StoredRest, st \in {Applied, Declined, Interviewed} }

NewCleanHist ==
    [ passes  |-> 0,              \* number of passes done
      input   |-> applications,   \* the file before the first pass
      before  |-> applications,   \* the file before the last pass
      removed |-> {} ]            \* the indices the last pass deleted

InitCleanIdle ==
    /\ applications = <<>>
    /\ chist = NewCleanHist

InitClean ==
    /\ applications \in Strings(StoredRecords, MaxRecords)
    /\ chist = NewCleanHist

\* clean_duplicates() is run on the existing file
clean_duplicates ==
    /\ chist.passes < MaxPasses
    /\ applications' = delete_all(applications, duplicates_to_remove(applications), 1)
    /\ chist' = [passes  |-> chist.passes + 1,
                 input   |-> chist.input,
                 before  |-> applications,
                 removed |-> duplicates_to_remove(applications)]

-----------------------------------------------------------------------------
(* Two processes running process_all_emails on the same files *)

Procs == {1, 2}

\* the record process_all_emails appends for message m (lines 238-250)
record_of(m) ==
    [parse_classification_details(classify_email(Answer(JobAnswer(m))))
        EXCEPT !["Date"] = DateOf(m)] @@ ("email_id" :> m)

\* the globals and locals of a process that has not started
NotStarted ==
    [pc |-> "idle", results |-> <<>>, processed_email_ids |-> {}, idx |-> 0,
     processed |-> 0, limit |-> NoLimit]

InitTwoIdle ==
    /\ proc = [r \in Procs |-> NotStarted]
    /\ shared = [results |-> <<>>, ids |-> {}]

\* process r is started with a limit
StartProc(r, lim) ==
    /\ proc[r].pc = "idle"
    /\ proc' = [proc EXCEPT ![r].pc = "load_results", ![r].limit = lim]
    /\ UNCHANGED shared

\* line 203 in process r
ProcLoadResults(r) ==
    /\ proc[r].pc = "load_results"
    /\ proc' = [proc EXCEPT ![r].results = shared.results, ![r].pc = "load_ids"]
    /\ UNCHANGED shared

\* lines 204-215 in process r
ProcLoadIds(r) ==
    /\ proc[r].pc = "load_ids"
    /\ proc' = [proc EXCEPT ![r].processed_email_ids = shared.ids,
                            ![r].idx = 1, ![r].pc = "loop"]
    /\ UNCHANGED shared

\* lines 216-251 in process r: one iteration of the loop over the listing, for a
\* message that is job mail
ProcLoop(r) ==
    /\ proc[r].pc = "loop"
    /\ LET p == proc[r]
       IN  IF p.idx > NSharedMsgs
             THEN proc' = [proc EXCEPT ![r].pc = "end_results"]
           ELSE IF messages[p.idx] \in p.processed_email_ids
             THEN proc' = [proc EXCEPT ![r].idx = p.idx + 1]
           ELSE IF p.limit # NoLimit /\ p.processed >= p.limit[1]
             THEN proc' = [proc EXCEPT ![r].pc = "end_results"]
           ELSE proc' = [proc EXCEPT
                    ![r].processed_email_ids = @ \cup {messages[p.idx]},
                    ![r].results = Append(@, record_of(messages[p.idx])),
                    ![r].processed = @ + 1,
                    ![r].idx = IF (p.processed + 1) % CheckpointEvery = 0
                                 THEN @ ELSE @ + 1,
                    ![r].pc = IF (p.processed + 1) % CheckpointEvery = 0
                                THEN "ckpt_results" ELSE "loop"]
    /\ UNCHANGED shared

\* lines 254 and 263 in process r: save_results()
ProcSaveResults(r) ==
    /\ proc[r].pc \in {"ckpt_results", "end_results"}
    /\ shared' = [shared EXCEPT !.results = StripIds(proc[r].results)]
    /\ proc' = [proc EXCEPT ![r].pc =
                    IF @ = "ckpt_results" THEN "ckpt_ids" ELSE "end_ids"]

\* lines 255 and 264 in process r: save_processed_ids(processed_email_ids)
ProcSaveIds(r) ==
    /\ proc[r].pc \in {"ckpt_ids", "end_ids"}
    /\ shared' = [shared EXCEPT !.ids = proc[r].processed_email_ids]
    /\ proc' = [proc EXCEPT
                  ![r].pc = IF @ = "ckpt_ids" THEN "loop" ELSE "done",
                  ![r].idx = IF proc[r].pc = "ckpt_ids" THEN @ + 1 ELSE @]

-----------------------------------------------------------------------------
(* Specifications *)

\* the other two parts of the model stand still
NoWebNorm == UNCHANGED <<normVars, webVars, parseVars, cleanVars, twoVars>>
NoCliNorm == UNCHANGED <<normVars, cliVars, parseVars, cleanVars, twoVars>>
NoCliWeb  == UNCHANGED <<cliVars, webVars, parseVars, cleanVars, twoVars>>
OnlyParse == UNCHANGED <<normVars, cliVars, webVars, cleanVars, twoVars>>
OnlyClean == UNCHANGED <<normVars, cliVars, webVars, parseVars, twoVars>>
OnlyTwo   == UNCHANGED <<normVars, cliVars, webVars, parseVars, cleanVars>>

\* the command-line pipeline, every write succeeding
Next ==
    \/ \E lim \in Limits : Install(lim) /\ NoWebNorm
    \/ LoadResults /\ NoWebNorm
    \/ LoadIds /\ NoWebNorm
    \/ Fetch /\ NoWebNorm
    \/ FetchFails /\ NoWebNorm
    \/ LoopHead /\ NoWebNorm
    \/ \E outcome \in {"raise", "no", "yes"} : Filter(outcome) /\ NoWebNorm
    \/ ContentFails /\ NoWebNorm
    \/ \E response \in ClassifierAnswers : Classify(response) /\ NoWebNorm
    \/ Merge /\ NoWebNorm
    \/ CheckpointResults(TRUE) /\ NoWebNorm
    \/ CheckpointIds(TRUE) /\ NoWebNorm
    \/ EndResults(TRUE) /\ NoWebNorm
    \/ EndIds(TRUE) /\ NoWebNorm
    \/ signal_handler(TRUE, TRUE) /\ NoWebNorm

\* the state before any run: empty files, empty database, normalizer not called
Init ==
    InitCli /\ InitWeb /\ InitNormIdle /\ InitParseIdle /\ InitCleanIdle /\ InitTwoIdle

Spec == Init /\ [][Next]_vars

\* the command-line pipeline when a write may fail and the process may be killed
NextFault ==
    \/ \E lim \in Limits : Install(lim) /\ NoWebNorm
    \/ LoadResults /\ NoWebNorm
    \/ LoadIds /\ NoWebNorm
    \/ Fetch /\ NoWebNorm
    \/ FetchFails /\ NoWebNorm
    \/ LoopHead /\ NoWebNorm
    \/ \E outcome \in {"raise", "no", "yes"} : Filter(outcome) /\ NoWebNorm
    \/ ContentFails /\ NoWebNorm
    \/ \E response \in ClassifierAnswers : Classify(response) /\ NoWebNorm
    \/ Merge /\ NoWebNorm
    \/ \E ok \in BOOLEAN : CheckpointResults(ok) /\ NoWebNorm
    \/ \E ok \in BOOLEAN : CheckpointIds(ok) /\ NoWebNorm
    \/ \E ok \in BOOLEAN : EndResults(ok) /\ NoWebNorm
    \/ \E ok \in BOOLEAN : EndIds(ok) /\ NoWebNorm
    \/ \E okR, okI \in BOOLEAN : signal_handler(okR, okI) /\ NoWebNorm
    \/ Kill /\ NoWebNorm

SpecFault == Init /\ [][NextFault]_vars

\* the web sync
NextWeb ==
    \/ SyncStart /\ NoCliNorm
    \/ SyncSkip /\ NoCliNorm
    \/ SyncNoContent /\ NoCliNorm
    \/ SyncNotJob /\ NoCliNorm
    \/ \E response \in WebAnswers : SyncClassify(response) /\ NoCliNorm
    \/ SyncCommit /\ NoCliNorm
    \/ SyncAbort /\ NoCliNorm

SpecWeb == Init /\ [][NextWeb]_vars

\* the answers the classifier gives while forms are submitted too
StoreAnswers ==
    {Answer(WebJobAnswer("Acme", st)) : st \in WebStatusTexts} \cup {APIError}

\* the web store: the sync and the forms
NextStore ==
    \/ SyncStart /\ NoCliNorm
    \/ SyncSkip /\ NoCliNorm
    \/ SyncNoContent /\ NoCliNorm
    \/ SyncNotJob /\ NoCliNorm
    \/ \E response \in StoreAnswers : SyncClassify(response) /\ NoCliNorm
    \/ SyncCommit /\ NoCliNorm
    \/ SyncAbort /\ NoCliNorm
    \/ \E company \in FormCompanies, job_title \in FormJobTitles,
          status \in FormStatuses :
           create_application(company, job_title, status) /\ NoCliNorm
    \/ \E app_id \in application_ids, company \in FormCompanies,
          job_title \in FormJobTitles, status \in FormStatuses :
           update_application(app_id, company, job_title, status) /\ NoCliNorm
    \/ \E app_id \in application_ids, status \in FormStatuses :
           quick_update_status(app_id, status) /\ NoCliNorm
    \/ \E app_id \in application_ids : delete_application(app_id) /\ NoCliNorm

SpecStore == Init /\ [][NextStore]_vars

\* the status normalizers
NextNorm ==
    \/ NormalizeCli /\ NoCliWeb
    \/ NormalizeWeb /\ NoCliWeb

\* a status string to normalize, nothing else started
InitStatus ==
    InitNorm /\ InitCli /\ InitWeb /\ InitParseIdle /\ InitCleanIdle /\ InitTwoIdle

SpecNorm == InitStatus /\ [][NextNorm]_vars

\* the classification parser
NextParse ==
    \/ Parse /\ OnlyParse
    \/ \E i \in 1..MaxLines, kind \in Rewritings : Reformat(i, kind) /\ OnlyParse
    \/ ParseRewritten /\ OnlyParse

\* a classifier output to parse, nothing else started
InitClassification ==
    InitParse /\ InitCli /\ InitWeb /\ InitNormIdle /\ InitCleanIdle /\ InitTwoIdle

SpecParse == InitClassification /\ [][NextParse]_vars

\* the offline cleanup
NextClean == clean_duplicates /\ OnlyClean

\* a stored file to clean, nothing else started
InitStored ==
    InitClean /\ InitCli /\ InitWeb /\ InitNormIdle /\ InitParseIdle /\ InitTwoIdle

SpecClean == InitStored /\ [][NextClean]_vars

\* two processes on the same files
NextTwo ==
    \/ \E r \in Procs, lim \in Limits : StartProc(r, lim) /\ OnlyTwo
    \/ \E r \in Procs : ProcLoadResults(r) /\ OnlyTwo
    \/ \E r \in Procs : ProcLoadIds(r) /\ OnlyTwo
    \/ \E r \in Procs : ProcLoop(r) /\ OnlyTwo
    \/ \E r \in Procs : ProcSaveResults(r) /\ OnlyTwo
    \/ \E r \in Procs : ProcSaveIds(r) /\ OnlyTwo

SpecTwo == Init /\ [][NextTwo]_vars

-----------------------------------------------------------------------------
(* Properties of the status normalizers *)

\* keywords of the Declined class (the command-line table; the web keys 'declined'
\* and 'rejected' are among them)
DeclinedKeywords == STATUS_KEYWORDS[1].keywords

\* keywords of every other class, of either pipeline
OtherKeywords ==
    UNION {STATUS_KEYWORDS[i].keywords : i \in 2..Len(STATUS_KEYWORDS)}
      \cup {status_map[i].key : i \in {1, 2, 3, 4, 7}}

HasKeyword(s, kws) == \E k \in kws : Contains(Strip(Lower(s)), k)

MixedDeclined == HasKeyword(raw, DeclinedKeywords) /\ HasKeyword(raw, OtherKeywords)

\* C10: a raw status that contains a Declined-class keyword together with a keyword
\* of another class is normalized to Declined, by normalize_status of the
\* command-line pipeline and by the status mapping of the web pipeline.
C10_DeclinedWins ==
    MixedDeclined =>
        /\ cliStatus # NotRun => cliStatus = Declined
        /\ webStatus # NotRun => webStatus = <<DECLINED>>

\* the command-line half of C10 alone (it holds)
C10_DeclinedWinsCli ==
    (MixedDeclined /\ cliStatus # NotRun) => cliStatus = Declined

\* every keyword of the command-line table
CliKeywords == UNION {STATUS_KEYWORDS[i].keywords : i \in 1..Len(STATUS_KEYWORDS)}

\* the statuses the docstring of normalize_status lists
CliStatuses == {Declined, Offer, Interviewed, Applied}

\* C11: normalize_status returns a status for every input string (the empty string,
\* 'Unknown' and text without keyword included), and the status is Applied whenever
\* no keyword of any class occurs in the input.
C11_TotalWithAppliedDefault ==
    cliStatus # NotRun =>
        /\ cliStatus \in CliStatuses
        /\ ~HasKeyword(raw, CliKeywords) => cliStatus = Applied

C11_Witness ==
    /\ cliStatus = Applied
    /\ raw = <<Blank, "Unknown">>

\* the closed Status enumeration of the specification
StatusEnumeration ==
    {<<"Applied">>, <<"Screening">>, <<"Interviewing">>, <<"Offer">>, <<"Declined">>,
     <<"Withdrawn">>, <<"Accepted">>}

\* C12 as stated: the status the normalizer returns is a member of the enumeration
\* {Applied, Screening, Interviewing, Offer, Declined, Withdrawn, Accepted}.
C12_StatusInEnumeration ==
    cliStatus # NotRun => cliStatus \in StatusEnumeration

\* C12 amended: the status is a member of a closed set, which is
\* {Applied, Interviewed, Offer, Declined} for normalize_status of the command-line
\* pipeline and {applied, screening, interviewing, offer, declined, withdrawn} for
\* the status the web sync stores.
C12_StatusInClosedSet ==
    /\ cliStatus # NotRun => cliStatus \in CliStatuses
    /\ webStatus # NotRun =>
          webStatus[1] \in {APPLIED, SCREENING, INTERVIEWING, OFFER, DECLINED, WITHDRAWN}

C12_Witness ==
    /\ cliStatus = Interviewed
    /\ webStatus = <<APPLIED>>
    /\ raw = <<"interview", Blank, "soon">>

-----------------------------------------------------------------------------
(* Properties of the classification parser *)

\* the key name of each parsed field
FieldKey ==
    [f \in {"Company", "Job Title", "Location", "status"} |->
        CASE f = "Company"   -> "company"
          [] f = "Job Title" -> "job title"
          [] f = "Location"  -> "location"
          [] f = "status"    -> "status"]

\* the lines of `text` that are "Key: Value" lines of key name `key`
KeyLinesOf(text, key) ==
    {i \in 1..Len(text) :
        LET l == LStrip(text[i])
        IN  Len(l) >= 2 /\ LowerAtom(l[1]) = key /\ l[2] = Colon}

AbsentKeysEmpty(text, details) ==
    /\ DOMAIN details = {"Company", "Job Title", "Location", "status", "Date"}
    /\ \A f \in DOMAIN FieldKey :
          KeyLinesOf(text, FieldKey[f]) = {} => details[f] = <<>>

\* C13: parse_classification_details returns a field map for every classifier
\* output, and each of Company, Job Title, Location and status whose key line is
\* absent from the output is the empty string; empty or malformed output gives the
\* all-empty map.
C13_AbsentKeyIsEmpty ==
    /\ pdetails # NotParsed => AbsentKeysEmpty(ptext, pdetails)
    /\ vdetails # NotParsed => AbsentKeysEmpty(vtext, vdetails)

C13_Witness ==
    /\ ptext = << <<"soon">>, <<"Status", Colon, Blank, "Declined">> >>
    /\ pdetails # NotParsed
    /\ pdetails["status"] = Declined
    /\ pdetails["Company"] = <<>>

StatusNormalized(text, details) ==
    /\ KeyLinesOf(text, "status") # {} =>
          details["status"] =
              normalize_status(AfterColon(text[Max(KeyLinesOf(text, "status"))]))
    /\ details["status"] \in CliStatuses \cup {<<>>}

\* C14: when the classifier output has a Status line, the parsed status is the
\* Status Normalizer applied to the value of the last Status line; the parsed
\* status is always empty or a normalizer output, never raw classifier text.
C14_StatusIsNormalized ==
    pdetails # NotParsed => StatusNormalized(ptext, pdetails)

C14_Witness ==
    /\ ptext = << <<"Status", Colon, Blank, "Declined">>,
                  <<"status", Colon, "interview", Blank, "soon">> >>
    /\ pdetails # NotParsed
    /\ pdetails["status"] = Interviewed

\* C15: the field map does not change when the case of a key name is changed or
\* a blank is added before or after a key name or a value.
C15_RewritingKeepsFieldMap ==
    (pdetails # NotParsed /\ vdetails # NotParsed) => vdetails = pdetails

-----------------------------------------------------------------------------
(* Properties of the handling of failures *)

\* a call has just failed for a message of the web sync
WebFailureStep == whist'.failed # whist.failed /\ whist'.failed.kind # "none"

\* C21: when the content fetch, the pre-filter or the classification of one message
\* fails, the message is added to the processed set, no record is added for it and
\* the run goes on with the next message (stated for the web sync).
C21_WebFailureMarksAndContinues ==
    [][WebFailureStep =>
          /\ whist'.failed.m \in sProcessed'
          /\ sApps' = sApps
          /\ wpc' = "loop"
          /\ widx' = widx + 1]_vars

\* the same for the command-line pipeline (it holds): a failed pre-filter, content
\* fetch or classification marks the message, appends nothing and returns to the
\* head of the loop
C21_CliFailureMarksAndContinues ==
    [][( \/ pc = "filter" /\ pc' = "head"
         \/ pc = "classify" /\ pc' = "head"
         \/ pc = "merge" /\ hist.response.raised /\ pc' # "done" ) =>
          /\ messages[idx] \in processed_email_ids'
          /\ results' = results
          /\ pc' = "head"
          /\ idx' = idx + 1]_vars

\* the transient failures of the completion call
IsTransient(response) == response \in {RateLimitError, APIConnectionError}

\* C22: a classification call that fails with a rate limit or connectivity error is
\* attempted again, up to 3 attempts in total; the message is skipped and marked
\* processed only when the 3 attempts are used up.
C22_TransientErrorIsRetried ==
    (pc = "merge" /\ IsTransient(hist.response)) =>
        hist.attempts = stop_after_attempt

\* C23: a classification call that fails with an authentication error ends the
\* run: no later message is classified or marked processed, and the persisted
\* checkpoint stays as it was.
C23_PermanentErrorEndsRun ==
    (hist.fatal # 0 /\ ~interrupted) =>
        /\ \A m \in processed_email_ids : m <= hist.fatal \/ m \in hist.startIds
        /\ fileIds = hist.startIds
        /\ fileResults = hist.startResults

\* every persisted record and processed id is still persisted after the step
NothingLost ==
    /\ shared.ids \subseteq shared'.ids
    /\ \A i \in 1..Len(shared.results) :
          \E j \in 1..Len(shared'.results) : shared'.results[j] = shared.results[i]

\* process r is between its load of the checkpoint and its last write
Active(r) == proc[r].pc \notin {"idle", "load_results", "done"}

\* process r writes one of the two files in this step
Writes(r) ==
    /\ proc[r].pc \in {"ckpt_results", "ckpt_ids", "end_results", "end_ids"}
    /\ proc'[r] # proc[r]

\* C24: two runs over the same store never interleave their writes: while one run
\* is between its load and its last write no other run writes, and no record or
\* processed id persisted by one run is lost through the other run's write.
C24_NoLostWrite ==
    [][ /\ NothingLost
        /\ \A r \in Procs : Writes(r) => \A o \in Procs \ {r} : ~Active(o) ]_vars

\* the loss alone
C24_NothingLost == [][NothingLost]_vars

-----------------------------------------------------------------------------
(* Properties of the offline cleanup pass *)

\* C17: a cleanup pass applied to the output of a first pass removes no record and
\* leaves the list unchanged.
C17_SecondPassIsNoOp ==
    chist.passes = 2 => (applications = chist.before /\ chist.removed = {})

C17_Witness ==
    /\ chist.passes = 2
    /\ Len(chist.input) = 3
    /\ Len(applications) = 1

\* the records of `apps` with the (company, job title) key of record i
PairGroup(apps, i) ==
    {j \in 1..Len(apps) :
        /\ apps[j]["Company"] = apps[i]["Company"]
        /\ apps[j]["Job Title"] = apps[i]["Job Title"]}

WithStatus(apps, group, st) == {j \in group : apps[j]["status"] = st}

\* how often record r occurs in `apps`
CountOf(apps, r) == Cardinality({j \in 1..Len(apps) : apps[j] = r})

\* the file after the pass is the file before it without the removed records
RemovedAreGone ==
    \A r \in StoredRecords :
        CountOf(applications, r) =
            CountOf(chist.before, r)
              - Cardinality({j \in chist.removed : chist.before[j] = r})

\* C18: in every (company, job title) group with a Declined record, every Applied
\* record is removed, whatever the stored order; in a group of exactly one Applied
\* and one Declined record, the Applied record is the only one removed.
C18_AppliedRemovedWhenDeclined ==
    chist.passes > 0 =>
        /\ RemovedAreGone
        /\ \A i \in 1..Len(chist.before) :
              LET g == PairGroup(chist.before, i)
              IN  WithStatus(chist.before, g, Declined) # {} =>
                    /\ WithStatus(chist.before, g, Applied) \subseteq chist.removed
                    /\ ( /\ Cardinality(g) = 2
                         /\ Cardinality(WithStatus(chist.before, g, Applied)) = 1 )
                       => g \cap chist.removed = WithStatus(chist.before, g, Applied)

C18_Witness ==
    /\ chist.passes = 1
    /\ Len(chist.before) = 2
    /\ chist.before[1]["status"] = Declined
    /\ chist.before[2]["status"] = Applied
    /\ chist.before[1]["Company"] = chist.before[2]["Company"]
    /\ chist.before[1]["Job Title"] = chist.before[2]["Job Title"]
    /\ applications = <<chist.before[1]>>

\* the first of the records of `group` with the fewest 'Unknown' fields
FewestUnknownFirst(apps, group) ==
    CHOOSE i \in group :
        \A j \in group :
            \/ count_unknown_fields(apps[i]) < count_unknown_fields(apps[j])
            \/ count_unknown_fields(apps[i]) = count_unknown_fields(apps[j]) /\ i <= j

\* C19: of the Interviewed records of a (company, job title) group that has more
\* than one, exactly one survives the pass: the one with the fewest 'Unknown'
\* fields, the first encountered among those tied.
C19_MostCompleteInterviewSurvives ==
    chist.passes > 0 =>
        \A i \in 1..Len(chist.before) :
            LET iv == WithStatus(chist.before, PairGroup(chist.before, i), Interviewed)
            IN  Cardinality(iv) > 1 =>
                  iv \ chist.removed = {FewestUnknownFirst(chist.before, iv)}

\* C26: the cleanup pass puts two records in the same group if and only if they
\* have the same company and the same job title as stored, and a record is removed
\* only because of records of its own (company, job title) group.
C26_GroupedByCompanyAndTitle ==
    chist.passes > 0 =>
        \A i \in 1..Len(chist.before) :
            LET g == PairGroup(chist.before, i)
            IN  /\ app_list(chist.before, group_key(chist.before[i])) = g
                /\ i \in chist.removed =>
                      \/ /\ chist.before[i]["status"] = Applied
                         /\ WithStatus(chist.before, g, Declined) # {}
                      \/ /\ chist.before[i]["status"] = Interviewed
                         /\ WithStatus(chist.before, g, Interviewed) \ chist.removed # {}

-----------------------------------------------------------------------------
(* Properties of the command-line pipeline *)

\* the run reached the end of process_all_emails (it was not interrupted and the
\* listing was fetched)
FullRun == pc = "done" /\ ~interrupted /\ hist.fetched

\* the records the current run appended
IsNew(r) == "email_id" \in DOMAIN r

C2_ProcessedIsSkipped ==
    /\ hist.repeated = {}
    /\ \A i \in 1..Len(results) :
          IsNew(results[i]) => results[i].email_id \notin hist.startIds

C2_Witness ==
    /\ FullRun
    /\ hist.startIds # {}
    /\ \E i \in 1..Len(results) : IsNew(results[i])

\* the classifier's answer begins with a 'Company:' header
BeginsWithCompanyHeader(response) ==
    /\ ~response.raised
    /\ StripText(response.text) # <<>>
    /\ StartsWith(StripText(response.text)[1], <<"Company", Colon>>)

\* the classifier's answer is the 'not a job application' sentinel
IsSentinelAnswer(response) ==
    ~response.raised /\ StripText(response.text) = NotJobApplication

\* C16: the merge of a classified message adds a record only if the classifier's
\* answer begins with a 'Company:' header and is not the sentinel; for every other
\* answer the message is marked processed and the records are left unchanged.
C16_RecordOnlyForCompanyHeader ==
    [][pc = "merge" =>
          \/ /\ BeginsWithCompanyHeader(hist.response)
             /\ ~IsSentinelAnswer(hist.response)
          \/ /\ results' = results
             /\ fileResults' \in {fileResults, StripIds(results)}
             /\ messages[idx] \in processed_email_ids']_vars

C16_Witness ==
    /\ pc = "head"
    /\ idx = 3
    /\ hist.response = Answer(<< <<"company", Colon, Blank, CompanyOf(2)>> >>)
    /\ Len(results) = 1
    /\ results[1].email_id = 1
    /\ 2 \in processed_email_ids

\* the message at idx was classified and its merge would append a record
YieldsRecord ==
    /\ idx \in 1..NMsgs
    /\ classification # <<>>
    /\ ~is_sentinel(classification)
    /\ has_details(candidate(messages[idx]))

\* C20: in the checkpoint persisted on interruption, a message that yields a record
\* is persisted as processed only together with its record.
C20_ProcessedOnlyWithItsRecord ==
    (pc = "done" /\ interrupted /\ YieldsRecord /\ messages[idx] \in fileIds) =>
        /\ \E i \in 1..Len(results) :
              IsNew(results[i]) /\ results[i].email_id = messages[idx]
        /\ fileResults = StripIds(results)

\* the number of records that the checkpoints of this run must have persisted: the
\* loaded ones and the merged ones up to the last multiple of the interval
Checkpointed ==
    Len(hist.startResults) + CheckpointEvery * (processed \div CheckpointEvery)

\* C25: a checkpoint of the records and of the processed ids is written each time
\* the number of records merged in the run reaches a multiple of 10, and when the
\* run ends; at the end of every run the persisted state is the in-memory state.
C25_CheckpointsWritten ==
    /\ pc = "done" =>
          /\ fileResults = StripIds(results)
          /\ fileIds = processed_email_ids
    /\ (pc \in {"head", "filter", "classify", "merge", "end_results", "end_ids"}
           /\ processed >= CheckpointEvery) =>
          /\ Len(fileResults) >= Checkpointed
          /\ SubSeq(fileResults, 1, Checkpointed)
                = SubSeq(StripIds(results), 1, Checkpointed)
          /\ \A i \in 1..Checkpointed :
                IsNew(results[i]) => results[i].email_id \in fileIds

C25_Witness ==
    /\ pc = "head"
    /\ processed = CheckpointEvery
    /\ Len(results) = CheckpointEvery
    /\ fileResults = StripIds(results)
    /\ fileIds = processed_email_ids

\* the (company, jobTitle) key, compared case-insensitively after trimming
KeyOf(r) == <<Lower(Strip(r["Company"])), Lower(Strip(r["Job Title"]))>>

\* C4: the persisted records (none of which has a thread correlation) hold at most
\* one record for each (company, jobTitle) key.
C4_OneRecordPerKey ==
    \A i, j \in 1..Len(fileResults) :
        i # j => KeyOf(fileResults[i]) # KeyOf(fileResults[j])

\* the two persisted files are the two halves of one checkpoint
SameCheckpoint == hist.snapIds = fileIds /\ hist.snapResults = fileResults

\* C7: wherever a run stops, the persisted records and the persisted processed ids
\* belong to the same checkpoint.
C7_SameCheckpointAtStop == pc \in {"done", "killed"} => SameCheckpoint

\* C8: after an interruption every record the run had merged is persisted, and the
\* persisted processed set holds no id of a message the run had not reached.
C8_InterruptPersists ==
    (pc = "done" /\ interrupted) =>
        /\ \A i \in 1..Len(results) :
              IsNew(results[i]) =>
                  i <= Len(fileResults) /\ fileResults[i] = StripId(results[i])
        /\ \A m \in fileIds :
              \/ m \in hist.startIds
              \/ \E i \in 1..NMsgs : i <= idx /\ messages[i] = m

C8_Witness ==
    /\ pc = "done" /\ interrupted
    /\ idx < NMsgs
    /\ \E i \in 1..Len(results) : IsNew(results[i])
    /\ fileIds # hist.startIds

\* C9: at the end of a run that was neither interrupted nor stopped by the limit,
\* every fetched message id is in the persisted processed set.
C9_AllMarked ==
    (FullRun /\ ~hist.limitStop) => \A i \in 1..NMsgs : messages[i] \in fileIds

C9_Witness ==
    /\ FullRun /\ ~hist.limitStop
    /\ hist.startIds = {}
    /\ Len(fileResults) = NMsgs - NVague

-----------------------------------------------------------------------------
(* Properties of the web sync *)

UniqueThreads(apps) ==
    \A i, j \in 1..Len(apps) :
        i # j => apps[i].email_thread_id # apps[j].email_thread_id

\* C3: no two applications carry the same thread id, in the committed rows and in
\* the rows of a running sync; a message of a thread that already has an application
\* is correlated with it and never inserted as a second row of that thread.
C3_OneApplicationPerThread ==
    /\ UniqueThreads(dbApps)
    /\ UniqueThreads(sApps)
    /\ ~whist.integrityError

\* two messages of one thread were merged in the running sync: the second one met the
\* application the first one created
C3_Witness ==
    /\ wpc = "loop"
    /\ whist.startProcessed = {}
    /\ whist.last.kind \in {"update", "noop"}
    /\ whist.last.cand.m = 2
    /\ Len(sApps) = 1
    /\ sApps[1].email_thread_id = ThreadOf(1)

\* the step is the merge of a classified candidate
IsMerge == whist'.last # whist.last /\ whist'.last.kind # "none"

ThreadMatches(c) == \E i \in 1..Len(sApps) : sApps[i].email_thread_id = c.thread

TheMatch(c) == CHOOSE i \in 1..Len(sApps) : sApps[i].email_thread_id = c.thread

\* one new application with the candidate's status and thread, one initial change
CreatesOne(c) ==
    /\ Len(sApps') = Len(sApps) + 1
    /\ SubSeq(sApps', 1, Len(sApps)) = sApps
    /\ sApps'[Len(sApps')].status = c.status
    /\ sApps'[Len(sApps')].email_thread_id = c.thread
    /\ sChanges' = Append(sChanges,
           [application_id |-> sApps'[Len(sApps')].id, old_status |-> "none",
            new_status |-> c.status, source |-> "email"])

\* the matched application gets the candidate's status and nothing else changes, one
\* change is logged
UpdatesInPlace(c) ==
    /\ sApps' = [sApps EXCEPT ![TheMatch(c)].status = c.status]
    /\ sChanges' = Append(sChanges,
           [application_id |-> sApps[TheMatch(c)].id,
            old_status |-> sApps[TheMatch(c)].status,
            new_status |-> c.status, source |-> "email"])

\* C5: the merge of a classified candidate creates one application when no stored one
\* matches by thread; updates the matched application's status in place, creating
\* none, when the status differs (whatever the candidate's company or title); and
\* changes no application and no status change when the status is the same.
C5_MergeDecision ==
    [][IsMerge =>
         LET c == whist'.last.cand
         IN  IF ~ThreadMatches(c) THEN CreatesOne(c)
             ELSE IF sApps[TheMatch(c)].status # c.status THEN UpdatesInPlace(c)
             ELSE sApps' = sApps /\ sChanges' = sChanges]_vars

\* an update in place by a candidate whose company differs from the stored one
C5_Witness ==
    /\ whist.last.kind = "update"
    /\ whist.last.cand.details["company"] # sApps[whist.last.app].company
    /\ sApps[whist.last.app].status = whist.last.cand.status
    /\ Len(sApps) = 1

WebKey(company, job_title) == <<Lower(Strip(company)), Lower(Strip(job_title))>>

KeyMatches(c) ==
    \E i \in 1..Len(sApps) :
        WebKey(sApps[i].company, sApps[i].job_title)
          = WebKey(Get(c.details, "company", <<"Unknown">>),
                   Get(c.details, "job_title", <<"Unknown">>))

\* C6: a candidate that matches no stored application by thread but whose company
\* and job title equal those of a stored one creates no application.
C6_KeyMatchCreatesNothing ==
    [][(IsMerge /\ ~ThreadMatches(whist'.last.cand) /\ KeyMatches(whist'.last.cand))
          => Len(sApps') = Len(sApps)]_vars

\* the sync ran to its commit
FullSync == wpc = "idle" /\ whist.committed

\* C1 for the web sync, as stated: a second committed sync over the same messages
\* leaves the committed applications and status changes unchanged.
C1_WebSecondSyncAddsNothing ==
    (FullSync /\ whist.prevComplete) =>
        dbApps = whist.startApps /\ dbChanges = whist.startChanges

\* C1 for the web sync, amended: ... if the first sync got the content of every
\* message it listed.
C1_WebSecondSyncAfterCompleteSync ==
    (FullSync /\ whist.prevAllContent) =>
        /\ dbApps = whist.startApps
        /\ dbChanges = whist.startChanges
        /\ dbProcessed = whist.startProcessed

C1_WebWitness == FullSync /\ whist.prevAllContent /\ Len(dbApps) > 0

\* C2 for the web sync: no call and no merge for a message that has a committed
\* ProcessedEmail row when the sync starts.
C2_WebProcessedIsSkipped ==
    /\ whist.repeated = {}
    /\ whist.last.kind # "none" => whist.last.cand.m \notin whist.startProcessed

C2_WebWitness ==
    /\ whist.startProcessed # {}
    /\ whist.last.kind = "create"

-----------------------------------------------------------------------------
(* Properties of the status history in the web store *)

\* the history rows of one application, oldest first
entries_of(changes, app_id) ==
    SelectSeq(changes, LAMBDA c : c.application_id = app_id)

IsPrefix(s, t) == Len(s) <= Len(t) /\ SubSeq(t, 1, Len(s)) = s

IdsOf(apps) == {apps[i].id : i \in 1..Len(apps)}

\* C27: a StatusChange entry, once committed, is never rewritten; entries leave the
\* store only when their application is deleted, and then all entries of that
\* application leave with it. Every other step only appends to the history.
C27_HistoryIsAppendOnly ==
    [][ LET deleted == IdsOf(dbApps) \ IdsOf(dbApps')
        IN  IF deleted = {}
              THEN IsPrefix(dbChanges, dbChanges')
              ELSE dbChanges' =
                     SelectSeq(dbChanges, LAMBDA c : c.application_id \notin deleted)
      ]_vars

\* an application was deleted (key 1 is gone) and a surviving application has
\* history entries written by a sync and by a form
C27_Witness ==
    /\ 1 \notin IdsOf(dbApps)
    /\ \E i \in 1..Len(dbApps) :
          LET ch == entries_of(dbChanges, dbApps[i].id)
          IN  /\ \E k \in 1..Len(ch) : ch[k].source = "email"
              /\ \E k \in 1..Len(ch) : ch[k].source = "manual"

ConsistentChain(app) ==
    LET ch == entries_of(dbChanges, app.id)
    IN  /\ ch # <<>>
        /\ ch[1].old_status = "none"
        /\ \A k \in 2..Len(ch) : ch[k].old_status = ch[k - 1].new_status
        /\ \A k \in 1..Len(ch) : ch[k].old_status # ch[k].new_status
        /\ ch[Len(ch)].new_status = app.status

-----------------------------------------------------------------------------
(* Properties of the records an ingestion run leaves *)

\* C29: a run deletes no record: when a run of the command-line pipeline has ended,
\* the records that were in the file when it started are still there, in the same
\* order, before the records the run appended.
C29_RunKeepsRecords ==
    pc = "done" => IsPrefix(hist.startResults, fileResults)

\* C30: every record a run creates has a non-empty company and a non-empty job
\* title.
C30_CreatedRecordHasCompanyAndTitle ==
    \A i \in 1..Len(results) :
        IsNew(results[i]) =>
            results[i]["Company"] # <<>> /\ results[i]["Job Title"] # <<>>

====
